---- MODULE Spec2Model ----
(***************************************************************************)
(* Model of main.py (Instagram no-followback checker): username            *)
(* normalisation, export extraction, the snapshot store, the backoff       *)
(* fetcher, reconciliation, and the offline, api and web runs.             *)
(*                                                                         *)
(* Text is modelled as a sequence of one-character strings, so that        *)
(* stripping, case folding, substring search and code-point ordering are   *)
(* computed the way the Python code computes them.                         *)
(***************************************************************************)
EXTENDS Integers, Sequences, FiniteSets, TLC

(***************************************************************************)
(* Bounds of the model.                                                    *)
(***************************************************************************)
MaxRuns == 2        \* acquisition runs in one behaviour of Spec
MaxRunRetries == 2  \* --retries of those runs ranges over -1..MaxRunRetries
MaxRetries == 3     \* --retries of the single run of SpecFetch: -1..MaxRetries
MaxBaseWait == 2    \* --base-wait of that run: 0..MaxBaseWait (a duration)
MaxProfiles == 2    \* length of the iterable one upstream call yields
WriteChunks == 2    \* write(2) calls that flush one document to disk

(***************************************************************************)
(* Characters, in ascending code-point order (Python compares str by code  *)
(* point).                                                                 *)
(***************************************************************************)
Upper == <<"A","B","C","D","E","F","G","H","I","J","K","L","M","N","O","P","Q","R","S","T","U","V","W","X","Y","Z">>
Lower == <<"a","b","c","d","e","f","g","h","i","j","k","l","m","n","o","p","q","r","s","t","u","v","w","x","y","z">>
Digits == <<"0","1","2","3","4","5","6","7","8","9">>
CharOrder == <<" ", "!", "-", ".", "/">> \o Digits \o <<":", "@">> \o Upper \o <<"_">> \o Lower

Range(s) == {s[i] : i \in 1..Len(s)}

Ord(c) == CHOOSE i \in 1..Len(CharOrder) : CharOrder[i] = c

IsUpper(c) == c \in Range(Upper)
IsLower(c) == c \in Range(Lower)
IsDigit(c) == c \in Range(Digits)

\* str.lower() on one character
LowerChar(c) == IF IsUpper(c) THEN Lower[CHOOSE i \in 1..26 : Upper[i] = c] ELSE c

\* str.lower()
ToLower(s) == [i \in 1..Len(s) |-> LowerChar(s[i])]

\* needle in haystack (Python's substring test)
Contains(haystack, needle) ==
    \E i \in 0..(Len(haystack) - Len(needle)) :
        \A j \in 1..Len(needle) : haystack[i + j] = needle[j]

\* s < t for Python str: lexicographic by code point
StrLess(s, t) ==
    \E i \in 1..(Len(t)) :
        /\ \A j \in 1..(i - 1) : j <= Len(s) /\ s[j] = t[j]
        /\ \/ Len(s) = i - 1
           \/ Len(s) >= i /\ Ord(s[i]) < Ord(t[i])

\* variant of Sorted: the elements in another order (list(s), not sorted(s))
RECURSIVE Sorted_descending(_)
Sorted_descending(S) ==
    IF S = {} THEN <<>>
    ELSE LET m == CHOOSE x \in S : \A y \in S \ {x} : StrLess(y, x)
         IN  <<m>> \o Sorted_descending(S \ {m})

RECURSIVE SortedFrom(_)
SortedFrom(S) ==
    IF S = {} THEN <<>>
    ELSE LET m == CHOOSE x \in S : \A y \in S \ {x} : StrLess(x, y)
         IN  <<m>> \o SortedFrom(S \ {m})

\* sorted(set_of_str)
Sorted(S) == SortedFrom(S)

(***************************************************************************)
(* Rate-limit classification.                                              *)
(***************************************************************************)
RATE_LIMIT_HINTS ==
    { <<"P","l","e","a","s","e"," ","w","a","i","t"," ","a"," ","f","e","w"," ","m","i","n","u","t","e","s">>,
      <<"4","0","1"," ","U","n","a","u","t","h","o","r","i","z","e","d">>,
      <<"f","e","e","d","b","a","c","k","_","r","e","q","u","i","r","e","d">> ,
      <<"r","a","t","e"," ","l","i","m","i","t">> }

\* variant of is_rate_limited: every error counts as a rate limit
is_rate_limited_any(msg) == TRUE

\* is_rate_limited(error), on str(error)
is_rate_limited(msg) ==
    LET lowered == ToLower(msg)
    IN  \E hint \in RATE_LIMIT_HINTS : Contains(lowered, ToLower(hint))

(***************************************************************************)
(* Identity normaliser.                                                    *)
(***************************************************************************)
\* whitespace that str.strip() removes, within the alphabet
SpaceChars == {" "}

\* the class [A-Za-z0-9._]
UserChars == Range(Upper) \cup Range(Lower) \cup Range(Digits) \cup {".", "_"}
UserChar(c) == c \in UserChars

\* number of characters of s from position i on that are in C
RECURSIVE LeadRun(_, _, _)
LeadRun(s, i, C) ==
    IF i <= Len(s) /\ s[i] \in C THEN 1 + LeadRun(s, i + 1, C) ELSE 0

\* number of characters of s from position i back that are in C
RECURSIVE TrailRun(_, _, _)
TrailRun(s, i, C) ==
    IF i >= 1 /\ s[i] \in C THEN 1 + TrailRun(s, i - 1, C) ELSE 0

DropLead(s, C) == SubSeq(s, LeadRun(s, 1, C) + 1, Len(s))
DropTrail(s, C) == SubSeq(s, 1, Len(s) - TrailRun(s, Len(s), C))

\* raw.strip()
Strip(s) == DropTrail(DropLead(s, SpaceChars), SpaceChars)
\* variant of LStripAt: the leading "@" are kept
LStripAt_none(s) == s

\* .lstrip("@")
LStripAt(s) == DropLead(s, {"@"})
\* .rstrip("/")
RStripSlash(s) == DropTrail(s, {"/"})

UrlPrefix == <<"i","n","s","t","a","g","r","a","m",".","c","o","m","/">>

\* the pattern instagram\.com/([A-Za-z0-9._]+) matches at offset i (IGNORECASE)
UrlMatchAt(text, i) ==
    /\ i + Len(UrlPrefix) + 1 <= Len(text)
    /\ \A j \in 1..Len(UrlPrefix) : LowerChar(text[i + j]) = UrlPrefix[j]
    /\ UserChar(text[i + Len(UrlPrefix) + 1])

\* re.search(...): the leftmost match, its group 1 taken greedily
UrlSearch(text) ==
    LET hits == {i \in 0..Len(text) : UrlMatchAt(text, i)}
    IN  IF hits = {} THEN [found |-> FALSE, group |-> <<>>]
        ELSE LET i == CHOOSE h \in hits : \A k \in hits : h <= k
                 from == i + Len(UrlPrefix) + 1
             IN  [found |-> TRUE,
                  group |-> SubSeq(text, from, from + LeadRun(text, from, UserChars) - 1)]

\* re.fullmatch(r"[A-Za-z0-9._]+", text)
FullMatchUser(text) == Len(text) >= 1 /\ \A i \in 1..Len(text) : UserChar(text[i])

\* normalize_username(raw); the empty text is the absent value
normalize_username(raw) ==
    LET stripped == RStripSlash(LStripAt(Strip(raw)))
        m == UrlSearch(stripped)
        text == IF m.found THEN m.group ELSE stripped
    IN  IF FullMatchUser(text) THEN ToLower(text) ELSE <<>>

(***************************************************************************)
(* Relation extractor.  A JSON value is a tagged record: kind "str" (str), *)
(* "list" (items), "dict" (keys, items in the same order) or "other".      *)
(***************************************************************************)
JStr(s) == [kind |-> "str", str |-> s, keys |-> <<>>, items |-> <<>>]
JList(xs) == [kind |-> "list", str |-> <<>>, keys |-> <<>>, items |-> xs]
JDict(ks, xs) == [kind |-> "dict", str |-> <<>>, keys |-> ks, items |-> xs]
JOther == [kind |-> "other", str |-> <<>>, keys |-> <<>>, items |-> <<>>]

\* the usernames walk() adds for key k of a mapping
KeyHits(item, k) ==
    {normalize_username(item.items[i].str) :
        i \in {j \in 1..Len(item.keys) : item.keys[j] = k /\ item.items[j].kind = "str"}}

\* variant of walk: the loops are left after their first element
RECURSIVE walk_first_only(_)
walk_first_only(item) ==
    IF item.kind = "dict"
    THEN KeyHits(item, "value") \cup KeyHits(item, "href")
         \cup UNION {walk_first_only(item.items[i]) : i \in 1..Len(item.items) \cap {1}}
    ELSE IF item.kind = "list"
    THEN UNION {walk_first_only(item.items[i]) : i \in 1..Len(item.items) \cap {1}}
    ELSE {}

RECURSIVE walk(_)
walk(item) ==
    IF item.kind = "dict"
    THEN KeyHits(item, "value") \cup KeyHits(item, "href")
         \cup UNION {walk(item.items[i]) : i \in 1..Len(item.items)}
    ELSE IF item.kind = "list"
    THEN UNION {walk(item.items[i]) : i \in 1..Len(item.items)}
    ELSE {}

\* extract_usernames(node)
extract_usernames(node) == {u \in walk(node) : u # <<>>}

(***************************************************************************)
(* Snapshot store.  The snapshot directory is one fixed directory; a       *)
(* location is the file name inside it.                                    *)
(***************************************************************************)
\* str.replace(old, new) for one-character old and new
Replace(s, old, new) == [i \in 1..Len(s) |-> IF s[i] = old THEN new ELSE s[i]]

SnapshotSuffix == <<"-","s","n","a","p","s","h","o","t",".","j","s","o","n">>

\* variant of snapshot_path: one location per target, whatever the source
snapshot_path_no_source(target, source) ==
    Replace(target, "/", "_") \o SnapshotSuffix

\* snapshot_path(snapshot_dir, target, source)
snapshot_path(target, source) ==
    Replace(target, "/", "_") \o <<"-">> \o Replace(source, "/", "_") \o SnapshotSuffix

\* the document json.dumps(payload.__dict__) serialises
Payload(now, source, tgt, fset, gset) ==
    [generated_at |-> now, source |-> source, target |-> tgt,
     followers |-> Sorted(fset), followees |-> Sorted(gset)]

UNKNOWN == <<"u","n","k","n","o","w","n">>

NoSnapshot ==
    [generated_at |-> 0, source |-> <<>>, target |-> <<>>,
     followers |-> <<>>, followees |-> <<>>]

\* A file is the document being written and the number of its chunks that
\* have reached the disk: open(path, "w") truncates to 0 chunks, and the text
\* is a complete JSON document only when all WriteChunks chunks are there.
Complete(file) == file.written = WriteChunks

\* variant of load_snapshot: a missing file reads as an empty snapshot
load_snapshot_lenient(fs, path) ==
    IF path \notin DOMAIN fs
    THEN [present |-> TRUE, raises |-> FALSE, snap |-> NoSnapshot]
    ELSE IF ~Complete(fs[path])
    THEN [present |-> FALSE, raises |-> TRUE, snap |-> NoSnapshot]
    ELSE [present |-> TRUE, raises |-> FALSE, snap |-> fs[path].doc]

\* variant of load_snapshot: a document that does not decode reads as absent
load_snapshot_masking(fs, path) ==
    IF path \notin DOMAIN fs \/ ~Complete(fs[path])
    THEN [present |-> FALSE, raises |-> FALSE, snap |-> NoSnapshot]
    ELSE [present |-> TRUE, raises |-> FALSE, snap |-> fs[path].doc]

\* load_snapshot(path) against the store fs: absent, a decode error raised
\* by json.loads, or the reconstructed Snapshot
load_snapshot(fs, path) ==
    IF path \notin DOMAIN fs
    THEN [present |-> FALSE, raises |-> FALSE, snap |-> NoSnapshot]
    ELSE IF ~Complete(fs[path])
    THEN [present |-> FALSE, raises |-> TRUE, snap |-> NoSnapshot]
    ELSE LET raw == fs[path].doc
         IN  [present |-> TRUE, raises |-> FALSE,
              snap |-> [generated_at |-> raw.generated_at,
                        source |-> IF "source" \in DOMAIN raw THEN raw.source ELSE UNKNOWN,
                        target |-> raw.target,
                        followers |-> raw.followers,
                        followees |-> raw.followees]]

(***************************************************************************)
(* Reconciliation.                                                         *)
(***************************************************************************)
NoSummary ==
    [printed |-> FALSE, n_followers |-> 0, n_followees |-> 0,
     no_me_siguen |-> <<>>, te_siguen_y_no_seguidos |-> <<>>,
     n_no_me_siguen |-> 0, n_te_siguen |-> 0, listed |-> <<>>]

\* variant of print_summary: the two differences taken the other way round
print_summary_swapped(fset, gset) ==
    [printed |-> TRUE,
     n_followers |-> Cardinality(fset),
     n_followees |-> Cardinality(gset),
     no_me_siguen |-> Sorted(fset \ gset),
     te_siguen_y_no_seguidos |-> Sorted(gset \ fset),
     n_no_me_siguen |-> Cardinality(fset \ gset),
     n_te_siguen |-> Cardinality(gset \ fset),
     listed |-> Sorted(fset \ gset)]

\* print_summary(followers, followees): what it computes and prints
print_summary(fset, gset) ==
    LET no_me_siguen == Sorted(gset \ fset)
        te_siguen_y_no_seguidos == Sorted(fset \ gset)
    IN  [printed |-> TRUE,
         n_followers |-> Cardinality(fset),
         n_followees |-> Cardinality(gset),
         no_me_siguen |-> no_me_siguen,
         te_siguen_y_no_seguidos |-> te_siguen_y_no_seguidos,
         n_no_me_siguen |-> Len(no_me_siguen),
         n_te_siguen |-> Len(te_siguen_y_no_seguidos),
         listed |-> no_me_siguen]

(***************************************************************************)
(* Inputs of the runs.                                                     *)
(***************************************************************************)
API == <<"a","p","i">>
OFFLINE == <<"o","f","f","l","i","n","e">>
FOLLOWERS == <<"f","o","l","l","o","w","e","r","s">>
FOLLOWEES == <<"f","o","l","l","o","w","e","e","s">>

\* --target labels
Targets == { <<"a","/","b">>, <<"a","_","b">> }

\* usernames the upstream may report
ProfileNames == { <<"a","l">>, <<"B","o","b">> }

\* the iterables one upstream call may yield
ProfileLists == UNION {[1..n -> ProfileNames] : n \in 0..MaxProfiles}

\* messages of upstream errors: with a rate-limit hint, and without one
RateLimitMsgs ==
    { <<"4","2","9"," ","R","a","t","e"," ","L","i","m","i","t"," ","r","e","a","c","h","e","d">> }
FatalMsgs == { <<"C","o","n","n","e","c","t","i","o","n"," ","r","e","s","e","t">> }

\* exported JSON documents an offline run may be pointed at
ExportDocs ==
    << JList(<< JDict(<<"string_list_data">>,
                      << JList(<< JDict(<<"href", "value", "timestamp">>,
                                        << JStr(<<"h","t","t","p","s",":","/","/","i","n","s","t","a","g","r","a","m",".","c","o","m","/","B","o","b">>),
                                           JStr(<<"@","b","o","b">>),
                                           JOther >>) >>) >>),
                JDict(<<"value">>, << JStr(<<"a","l","/">>) >>) >>),
       JDict(<<"relationships_following">>,
             << JList(<< JDict(<<"value">>, << JStr(<<"a","l">>) >>),
                         JDict(<<"value">>, << JStr(<<"n","o","t"," ","a"," ","u","s","e","r","!","!">>) >>) >>) >>),
       JList(<< >>) >>

\* outcomes of one call of the upstream action: an iterable, or an error
OutcomesOver(lists, msgs) ==
    {[ok |-> TRUE, out |-> l, msg |-> <<>>] : l \in lists}
    \cup {[ok |-> FALSE, out |-> <<>>, msg |-> m] : m \in msgs}

Outcomes == OutcomesOver(ProfileLists, RateLimitMsgs \cup FatalMsgs)

\* the outcomes the runs of Spec draw from
RunLists == { <<>>, << <<"a","l">>, <<"B","o","b">> >>, << <<"a","l">>, <<"a","l">> >> }
RunOutcomes == OutcomesOver(RunLists, RateLimitMsgs \cup FatalMsgs)

(***************************************************************************)
(* State.                                                                  *)
(***************************************************************************)
VARIABLES
    files,      \* the snapshot directory: location -> [doc, written]
    clock,      \* runs started so far; the UTC time a save stamps
    pc,         \* position of the current run: idle, fetch, sleep, save, write, saved
    mode,       \* source tag of the current run (API or OFFLINE)
    target,     \* args.target
    retries,    \* args.retries
    base_wait,  \* args.base_wait
    label,      \* relation the backoff fetcher is working on
    attempt,    \* loop variable of fetch_with_backoff
    followers,  \* local of the run
    followees,  \* local of the run
    log,        \* per relation: the calls of the action and the sleeps, in order
    yielded,    \* the iterable the latest call of the action returned
    error,      \* message of the exception run_api caught
    status,     \* value the run returned (-1: none)
    ended,      \* none (running or never run), returned, raised, killed
    summary,    \* what print_summary printed in this run
    fallback,   \* the run announced that it uses the local API snapshot
    lastApi,    \* per target: the sets of its latest completed API acquisition
    before,     \* the snapshot directory as the current run found it
    raw,        \* argument of a call of normalize_username on its own
    text,       \* what that call returned
    node,       \* argument of a call of extract_usernames on its own
    usernames   \* what that call returned

vars == <<files, clock, pc, mode, target, retries, base_wait, label, attempt,
          followers, followees, log, yielded, error, status, ended, summary,
          fallback, lastApi, before, raw, text, node, usernames>>

\* arguments and results of the functions called on their own
pure == <<raw, text, node, usernames>>
store == <<files, lastApi>>
run == <<clock, before>>
args == <<mode, target, retries, base_wait>>
result == <<error, status, ended, summary, fallback>>

EmptyLog == [l \in {FOLLOWERS, FOLLOWEES} |-> <<>>]

CallEvent(o) == [ev |-> "call", ok |-> o.ok, msg |-> o.msg, secs |-> 0]
SleepEvent(n) == [ev |-> "sleep", ok |-> FALSE, msg |-> <<>>, secs |-> n]

\* the store with a complete document at path
Stored(fs, path, doc) ==
    [p \in DOMAIN fs \cup {path} |->
        IF p = path THEN [doc |-> doc, written |-> WriteChunks] ELSE fs[p]]

NeverFetched == [t \in Targets |-> [has |-> FALSE, followers |-> {}, followees |-> {}]]

\* what an earlier API acquisition of a target left behind
SeedFollowers == { <<"a","l">> }
SeedFollowees == { <<"a","l">>, <<"z","o","e">> }

\* The snapshot directory a behaviour starts with: empty, or holding the
\* snapshot of one earlier API acquisition (stamped 0).
Init ==
    /\ \/ files = <<>> /\ lastApi = NeverFetched
       \/ \E t \in Targets :
            /\ files = Stored(<<>>, snapshot_path(t, API),
                              Payload(0, API, t, SeedFollowers, SeedFollowees))
            /\ lastApi = [NeverFetched EXCEPT ![t] =
                             [has |-> TRUE, followers |-> SeedFollowers,
                              followees |-> SeedFollowees]]
    /\ clock = 0
    /\ pc = "idle"
    /\ mode = <<>>
    /\ target = <<>>
    /\ retries = 0
    /\ base_wait = 0
    /\ label = FOLLOWERS
    /\ attempt = 1
    /\ followers = {}
    /\ followees = {}
    /\ log = EmptyLog
    /\ yielded = <<>>
    /\ error = <<>>
    /\ status = -1
    /\ ended = "none"
    /\ summary = NoSummary
    /\ fallback = FALSE
    /\ before = files
    /\ raw = <<>> /\ text = <<>>
    /\ node = JOther /\ usernames = {}

\* what every run starts from
Fresh ==
    /\ clock' = clock + 1
    /\ label' = FOLLOWERS
    /\ attempt' = 1
    /\ log' = EmptyLog
    /\ yielded' = <<>>
    /\ error' = <<>>
    /\ summary' = NoSummary
    /\ fallback' = FALSE
    /\ before' = files

(***************************************************************************)
(* Backoff fetcher.                                                        *)
(***************************************************************************)
\* decimal text of an integer, as an f-string formats it
RECURSIVE NatText(_)
NatText(n) == IF n < 10 THEN <<Digits[n + 1]>> ELSE NatText(n \div 10) \o <<Digits[(n % 10) + 1]>>
IntText(n) == IF n < 0 THEN <<"-">> \o NatText(0 - n) ELSE NatText(n)

\* variants of ShouldRaise: fatal errors are retried too; the last attempt
\* of a rate-limited action is followed by one more wait
ShouldRaise_retry_fatal(msg, att, ret) == att >= ret
ShouldRaise_off_by_one(msg, att, ret) == ~is_rate_limited(msg) \/ att > ret

\* the condition of the bare raise in the except clause
ShouldRaise(msg, att, ret) == ~is_rate_limited(msg) \/ att >= ret

\* variant of WaitSeconds: a constant wait
WaitSeconds_flat(base, att) == base

\* wait_seconds
WaitSeconds(base, att) == base * att

\* variant of GaveUpMsg: the message names the rate limit
GaveUpMsg_hinted(lab, ret) ==
    <<"R","a","t","e"," ","l","i","m","i","t",":"," ">> \o lab
    \o <<" ","l","u","e","g","o"," ","d","e"," ">> \o IntText(ret)
    \o <<" ","i","n","t","e","n","t","o","s">>

\* message of the RuntimeError after the loop
GaveUpMsg(lab, ret) ==
    <<"N","o"," ","s","e"," ","p","u","d","o"," ","c","o","n","s","u","l","t","a","r"," ">>
    \o lab \o <<" ","l","u","e","g","o"," ","d","e"," ">> \o IntText(ret)
    \o <<" ","i","n","t","e","n","t","o","s">>

\* the except clause of run_api, entered with the message of the error
Caught(msg) ==
    LET cached == load_snapshot(files, snapshot_path(target, API))
    IN  /\ error' = msg
        /\ pc' = "idle"
        /\ IF ~is_rate_limited(msg)
           THEN /\ status' = 1
                /\ ended' = "returned"
                /\ UNCHANGED <<followers, followees, summary, fallback>>
           ELSE IF cached.raises
           THEN /\ status' = -1
                /\ ended' = "raised"
                /\ UNCHANGED <<followers, followees, summary, fallback>>
           ELSE IF cached.present
           THEN /\ fallback' = TRUE
                /\ followers' = Range(cached.snap.followers)
                /\ followees' = Range(cached.snap.followees)
                /\ summary' = print_summary(Range(cached.snap.followers),
                                            Range(cached.snap.followees))
                /\ status' = 0
                /\ ended' = "returned"
           ELSE /\ status' = 2
                /\ ended' = "returned"
                /\ UNCHANGED <<followers, followees, summary, fallback>>

\* run_api up to the first fetch
StartApi(t, r, w, installed, runs) ==
    /\ pc = "idle"
    /\ clock < runs
    /\ Fresh
    /\ mode' = API
    /\ target' = t
    /\ retries' = r
    /\ base_wait' = w
    /\ followers' = {}
    /\ followees' = {}
    /\ IF installed
       THEN pc' = "fetch" /\ status' = -1 /\ ended' = "none"
       ELSE pc' = "idle" /\ status' = 3 /\ ended' = "returned"
    /\ UNCHANGED <<pure, store>>

\* variant of FetchOk: the followees fetch goes on with the attempt counter
\* of the followers fetch
FetchOk_shared_budget(O) ==
    /\ pc = "fetch"
    /\ attempt <= retries
    /\ \E o \in O :
        /\ o.ok
        /\ log' = [log EXCEPT ![label] = Append(@, CallEvent(o))]
        /\ yielded' = o.out
        /\ IF label = FOLLOWERS
           THEN /\ followers' = Range(o.out)
                /\ label' = FOLLOWEES
                /\ pc' = "fetch"
                /\ UNCHANGED <<followees, attempt>>
           ELSE /\ followees' = Range(o.out)
                /\ pc' = "save"
                /\ UNCHANGED <<followers, label, attempt>>
    /\ UNCHANGED <<pure, store, run, args, result>>

\* variant of FetchOk: the run saves as soon as the followers came in
FetchOk_partial(O) ==
    /\ pc = "fetch"
    /\ attempt <= retries
    /\ \E o \in O :
        /\ o.ok
        /\ log' = [log EXCEPT ![label] = Append(@, CallEvent(o))]
        /\ yielded' = o.out
        /\ followers' = Range(o.out)
        /\ pc' = "save"
        /\ UNCHANGED <<followees, label, attempt>>
    /\ UNCHANGED <<pure, store, run, args, result>>

\* one attempt of fetch_with_backoff: the action returns its iterable
FetchOk(O) ==
    /\ pc = "fetch"
    /\ attempt <= retries
    /\ \E o \in O :
        /\ o.ok
        /\ log' = [log EXCEPT ![label] = Append(@, CallEvent(o))]
        /\ yielded' = o.out
        /\ IF label = FOLLOWERS
           THEN /\ followers' = Range(o.out)
                /\ label' = FOLLOWEES
                /\ attempt' = 1
                /\ pc' = "fetch"
                /\ UNCHANGED followees
           ELSE /\ followees' = Range(o.out)
                /\ pc' = "save"
                /\ UNCHANGED <<followers, label, attempt>>
    /\ UNCHANGED <<pure, store, run, args, result>>

\* one attempt fails with a rate-limit message and attempts remain
FetchRetry(O) ==
    /\ pc = "fetch"
    /\ attempt <= retries
    /\ \E o \in O :
        /\ ~o.ok
        /\ ~ShouldRaise(o.msg, attempt, retries)
        /\ log' = [log EXCEPT ![label] = Append(@, CallEvent(o))]
    /\ yielded' = <<>>
    /\ pc' = "sleep"
    /\ UNCHANGED <<pure, store, run, args, label, attempt, followers, followees, result>>

\* variant of Sleep: the loop goes on with the same attempt number
Sleep_no_advance ==
    /\ pc = "sleep"
    /\ log' = [log EXCEPT ![label] = Append(@, SleepEvent(WaitSeconds(base_wait, attempt)))]
    /\ pc' = "fetch"
    /\ UNCHANGED <<pure, attempt, yielded, store, run, args, label, followers, followees, result>>

\* time.sleep(wait_seconds) returns and the loop goes on
Sleep ==
    /\ pc = "sleep"
    /\ log' = [log EXCEPT ![label] = Append(@, SleepEvent(WaitSeconds(base_wait, attempt)))]
    /\ attempt' = attempt + 1
    /\ pc' = "fetch"
    /\ UNCHANGED <<pure, yielded, store, run, args, label, followers, followees, result>>

\* one attempt fails and the error is re-raised into run_api
FetchRaise(O) ==
    /\ pc = "fetch"
    /\ attempt <= retries
    /\ \E o \in O :
        /\ ~o.ok
        /\ ShouldRaise(o.msg, attempt, retries)
        /\ log' = [log EXCEPT ![label] = Append(@, CallEvent(o))]
        /\ Caught(o.msg)
    /\ yielded' = <<>>
    /\ UNCHANGED <<pure, store, run, args, label, attempt>>

\* the loop ends without a return: the RuntimeError after it
FetchGiveUp ==
    /\ pc = "fetch"
    /\ attempt > retries
    /\ Caught(GaveUpMsg(label, retries))
    /\ UNCHANGED <<pure, store, run, args, label, attempt, log, yielded>>

(***************************************************************************)
(* Offline run.                                                            *)
(***************************************************************************)
\* run_offline up to save_snapshot; file 0 is a path that does not exist
StartOffline(t, ff, gf) ==
    /\ pc = "idle"
    /\ clock < MaxRuns
    /\ Fresh
    /\ mode' = OFFLINE
    /\ target' = t
    /\ UNCHANGED <<retries, base_wait>>
    /\ IF ff = 0 \/ gf = 0
       THEN /\ pc' = "idle" /\ status' = 2 /\ ended' = "returned"
            /\ followers' = {} /\ followees' = {}
       ELSE /\ pc' = "save" /\ status' = -1 /\ ended' = "none"
            /\ followers' = extract_usernames(ExportDocs[ff])
            /\ followees' = extract_usernames(ExportDocs[gf])
    /\ UNCHANGED <<pure, store>>

(***************************************************************************)
(* save_snapshot, step by step, and the end of a successful run.           *)
(***************************************************************************)
\* the store after path.write_text opened the file for writing
Opened(fs, path, doc) ==
    [p \in DOMAIN fs \cup {path} |->
        IF p = path THEN [doc |-> doc, written |-> 0] ELSE fs[p]]

\* the store after one more chunk of the text reached the file
Flushed(fs, path) == [fs EXCEPT ![path].written = @ + 1]

\* save_snapshot: the payload is built and the file is opened (truncated)
SaveOpen ==
    /\ pc = "save"
    /\ files' = Opened(files, snapshot_path(target, mode),
                       Payload(clock, mode, target, followers, followees))
    /\ pc' = "write"
    /\ yielded' = <<>>
    /\ UNCHANGED <<pure, lastApi, run, args, label, attempt, followers, followees, log, result>>

\* save_snapshot: the text is written; after the last chunk the call returns
SaveWrite ==
    /\ pc = "write"
    /\ files' = Flushed(files, snapshot_path(target, mode))
    /\ IF Complete(files'[snapshot_path(target, mode)])
       THEN /\ pc' = "saved"
            /\ lastApi' = IF mode = API
                          THEN [lastApi EXCEPT ![target] =
                                   [has |-> TRUE, followers |-> followers, followees |-> followees]]
                          ELSE lastApi
       ELSE UNCHANGED <<pc, lastApi>>
    /\ UNCHANGED <<pure, run, args, label, attempt, followers, followees, log, yielded, result>>

\* after save_snapshot: the messages, print_summary and return 0
Summarize ==
    /\ pc = "saved"
    /\ summary' = print_summary(followers, followees)
    /\ status' = 0
    /\ ended' = "returned"
    /\ pc' = "idle"
    /\ UNCHANGED <<pure, store, run, args, label, attempt, followers, followees, log,
                   yielded, error, fallback>>

\* The process is killed (power loss, SIGKILL) wherever it stands: its
\* memory is gone and it returns nothing; the files stay as they are.
Crash ==
    /\ pc # "idle"
    /\ pc' = "idle"
    /\ ended' = "killed"
    /\ label' = FOLLOWERS
    /\ attempt' = 1
    /\ followers' = {}
    /\ followees' = {}
    /\ log' = EmptyLog
    /\ yielded' = <<>>
    /\ error' = <<>>
    /\ UNCHANGED <<pure, store, run, args, status, summary, fallback>>

ExportFiles == 0..Len(ExportDocs)

\* Acquisition runs, one after another, on one snapshot directory.
Next ==
    \/ \E t \in Targets, r \in (-1)..MaxRunRetries, installed \in BOOLEAN :
            StartApi(t, r, 1, installed, MaxRuns)
    \/ FetchOk(RunOutcomes)
    \/ FetchRetry(RunOutcomes)
    \/ Sleep
    \/ FetchRaise(RunOutcomes)
    \/ FetchGiveUp
    \/ \E t \in Targets, ff \in ExportFiles, gf \in ExportFiles : StartOffline(t, ff, gf)
    \/ SaveOpen
    \/ SaveWrite
    \/ Summarize
    \/ Crash

Spec == Init /\ [][Next]_vars

\* One API run, its retries, wait and upstream outcomes drawn widely.
NextFetch ==
    \/ \E t \in Targets, r \in (-1)..MaxRetries, w \in 0..MaxBaseWait :
            StartApi(t, r, w, TRUE, 1)
    \/ FetchOk(Outcomes)
    \/ FetchRetry(Outcomes)
    \/ Sleep
    \/ FetchRaise(Outcomes)
    \/ FetchGiveUp
    \/ SaveOpen
    \/ SaveWrite
    \/ Summarize

\* that run starts on an empty snapshot directory
InitFetch == Init /\ files = <<>>

SpecFetch == InitFetch /\ [][NextFetch]_vars

(***************************************************************************)
(* Properties of the backoff fetcher, checked under SpecFetch.             *)
(***************************************************************************)
Relations == {FOLLOWERS, FOLLOWEES}

\* the calls of the action for relation l, in order
Calls(l) == SelectSeq(log[l], LAMBDA e : e.ev = "call")
\* the waits slept through for relation l, in order
Sleeps(l) == SelectSeq(log[l], LAMBDA e : e.ev = "sleep")

RateLimitedCall(e) == e.ev = "call" /\ ~e.ok /\ e.msg \in RateLimitMsgs
FatalCall(e) == e.ev = "call" /\ ~e.ok /\ e.msg \in FatalMsgs
OkCall(e) == e.ev = "call" /\ e.ok

\* C1: when the action fails with a rate-limit message on attempts 1..k-1
\* and succeeds on attempt k (1 <= k <= retries), the action is invoked
\* exactly k times, the sleeps are base_wait*1, ..., base_wait*(k-1) in that
\* order, each between the failed attempt and the next one, and the call
\* returns the set of the usernames the successful call yielded.
C1_BackoffThenSuccess ==
    /\ \A l \in Relations :
        (\E i \in 1..Len(log[l]) : OkCall(log[l][i])) =>
            LET k == Len(Calls(l))
            IN  /\ 1 <= k /\ k <= retries
                /\ Len(log[l]) = 2 * k - 1
                /\ OkCall(log[l][2 * k - 1])
                /\ \A i \in 1..(k - 1) :
                    /\ RateLimitedCall(log[l][2 * i - 1])
                    /\ log[l][2 * i] = SleepEvent(base_wait * i)
    /\ (pc = "fetch" /\ label = FOLLOWEES /\ log[FOLLOWEES] = <<>>) =>
            followers = {yielded[i] : i \in 1..Len(yielded)}
    /\ (pc = "save" /\ mode = API) => followees = {yielded[i] : i \in 1..Len(yielded)}

\* C1 witness: retries = 3, two rate-limited attempts, then success, with
\* waits of base_wait and 2*base_wait
C1_Witness ==
    /\ retries = 3
    /\ base_wait = 2
    /\ pc = "fetch" /\ label = FOLLOWEES /\ log[FOLLOWEES] = <<>>
    /\ Len(Calls(FOLLOWERS)) = 3
    /\ [i \in 1..2 |-> Sleeps(FOLLOWERS)[i].secs] = <<2, 4>>
    /\ Len(yielded) = 2 /\ yielded[1] = yielded[2]
    /\ Cardinality(followers) = 1

\* C2: an attempt that fails with a message holding no rate-limit hint ends
\* the fetch at once: no call and no sleep follows it (after a failure on
\* attempt 1 nothing was slept), the followees are not fetched after a fatal
\* followers failure, and run_api has caught that same error.
C2_FatalPropagates ==
    \A l \in Relations : \A i \in 1..Len(log[l]) :
        FatalCall(log[l][i]) =>
            /\ i = Len(log[l])
            /\ (Len(Calls(l)) = 1 => Sleeps(l) = <<>>)
            /\ (l = FOLLOWERS => log[FOLLOWEES] = <<>>)
            /\ pc = "idle"
            /\ error = log[l][i].msg

\* C2 witness: the followees fetch fails fatally on its second attempt, after
\* one rate-limited attempt and its wait
C2_Witness ==
    /\ Len(log[FOLLOWEES]) = 3
    /\ RateLimitedCall(log[FOLLOWEES][1])
    /\ FatalCall(log[FOLLOWEES][3])
    /\ retries = 3
    /\ status = 1

\* C3: the action is never invoked more than retries times; while every
\* attempt so far failed rate-limited and attempts remain, the fetch goes on;
\* and when all retries attempts failed rate-limited there were exactly
\* retries - 1 sleeps, none after the last attempt, and the error of the last
\* attempt is the one that reached run_api.
C3_Exhausted ==
    \A l \in Relations :
        LET calls == Calls(l)
            allLimited == \A i \in 1..Len(calls) : RateLimitedCall(calls[i])
        IN  /\ Len(calls) <= IF retries >= 0 THEN retries ELSE 0
            /\ (calls # <<>> /\ allLimited /\ Len(calls) < retries) =>
                    pc \in {"fetch", "sleep"} /\ label = l
            /\ (calls # <<>> /\ allLimited /\ Len(calls) = retries) =>
                    /\ Len(Sleeps(l)) = retries - 1
                    /\ log[l][Len(log[l])] = calls[retries]
                    /\ pc = "idle"
                    /\ error = calls[retries].msg
                    /\ error \in RateLimitMsgs

\* C3 witness: three rate-limited attempts of the followees with retries = 3
C3_Witness ==
    /\ retries = 3
    /\ Len(Calls(FOLLOWEES)) = 3
    /\ \A i \in 1..3 : RateLimitedCall(Calls(FOLLOWEES)[i])
    /\ Len(Sleeps(FOLLOWEES)) = 2
    /\ pc = "idle"

(***************************************************************************)
(* Reconciliation on its own: print_summary applied to any two sets over   *)
(* a small universe of names.                                              *)
(***************************************************************************)
MaxNames == 4       \* names the two sets are drawn from

NameList == << <<"a","l">>, <<"B","o","b">>, <<"z","o","e">>, <<"a">>, <<"a","l","_","2">> >>
Names == {NameList[i] : i \in 1..MaxNames}

InitReconcile ==
    /\ files = <<>> /\ lastApi = NeverFetched /\ before = <<>>
    /\ clock = 0
    /\ pc = "reconcile"
    /\ mode = <<>> /\ target = <<>> /\ retries = 0 /\ base_wait = 0
    /\ label = FOLLOWERS /\ attempt = 1
    /\ followers \in SUBSET Names
    /\ followees \in SUBSET Names
    /\ log = EmptyLog /\ yielded = <<>>
    /\ error = <<>> /\ status = -1 /\ ended = "none"
    /\ summary = NoSummary
    /\ fallback = FALSE
    /\ raw = <<>> /\ text = <<>>
    /\ node = JOther /\ usernames = {}

\* print_summary(followers, followees)
Reconcile ==
    /\ pc = "reconcile"
    /\ summary' = print_summary(followers, followees)
    /\ pc' = "idle"
    /\ UNCHANGED <<pure, store, run, args, label, attempt, followers, followees, log,
                   yielded, error, status, ended, fallback>>

SpecReconcile == InitReconcile /\ [][Reconcile]_vars

(***************************************************************************)
(* Properties of the acquisition runs and of the store, checked under      *)
(* Spec.                                                                   *)
(***************************************************************************)
Elems(seq) == {seq[i] : i \in 1..Len(seq)}
Ascending(seq) == \A i \in 1..(Len(seq) - 1) : StrLess(seq[i], seq[i + 1])

\* an API run is over and the error it caught carries a rate-limit hint
ApiRateLimited == pc = "idle" /\ mode = API /\ error \in RateLimitMsgs
\* an API run is over and the error it caught carries no hint
ApiFatal == pc = "idle" /\ mode = API /\ error \in FatalMsgs

ApiPath == snapshot_path(target, API)

\* a complete document written for target t lies at t's "api" location
HasApiSnapshot(fs, t) ==
    /\ snapshot_path(t, API) \in DOMAIN fs
    /\ Complete(fs[snapshot_path(t, API)])
    /\ fs[snapshot_path(t, API)].doc.target = t

C5_NoSnapshotFails ==
    /\ (ApiRateLimited /\ ApiPath \notin DOMAIN before) =>
            /\ status = 2
            /\ ended = "returned"
            /\ ~summary.printed
            /\ ~fallback
            /\ files = before
    /\ mode = API => (status = 0 <=> summary.printed)

\* C5 witness: such a run, with an offline snapshot of the same target stored
C5_Witness ==
    /\ ApiRateLimited /\ status = 2
    /\ ApiPath \notin DOMAIN files
    /\ snapshot_path(target, OFFLINE) \in DOMAIN files
    /\ Complete(files[snapshot_path(target, OFFLINE)])

\* C6: a fetch error without a rate-limit hint ends an API run at once with
\* status 1: no further call or sleep, no fallback and no reconciliation even
\* when an "api" snapshot of the target is stored, and the snapshot directory
\* is left as the run found it.
C6_FatalNoFallback ==
    (mode = API /\ \E l \in Relations : \E i \in 1..Len(log[l]) : FatalCall(log[l][i])) =>
        /\ ApiFatal
        /\ \E l \in Relations :
            /\ FatalCall(log[l][Len(log[l])])
            /\ Len(SelectSeq(log[l], FatalCall)) = 1
            /\ (l = FOLLOWERS => log[FOLLOWEES] = <<>>)
        /\ status = 1
        /\ ended = "returned"
        /\ ~fallback
        /\ ~summary.printed
        /\ files = before

\* C6 witness: a fatal failure of the followees fetch while a snapshot that
\* a fallback could have used is stored
C6_Witness ==
    /\ ApiFatal /\ status = 1
    /\ HasApiSnapshot(files, target)
    /\ Len(log[FOLLOWEES]) = 3
    /\ FatalCall(log[FOLLOWEES][3])

\* C7: at every point of every run, whatever lies at a snapshot location is
\* a complete document (one that load_snapshot can decode).
C7_AtomicSave ==
    \A p \in DOMAIN files : ~load_snapshot(files, p).raises

\* the class [a-z0-9._]
ValidUsername(u) ==
    /\ Len(u) >= 1
    /\ \A i \in 1..Len(u) : IsLower(u[i]) \/ IsDigit(u[i]) \/ u[i] \in {".", "_"}

\* C8: the followers and followees of every stored snapshot are ascending,
\* free of duplicates, and hold valid Usernames only.
C8_StoredValid ==
    \A p \in DOMAIN files :
        Complete(files[p]) =>
            /\ Ascending(files[p].doc.followers)
            /\ Ascending(files[p].doc.followees)
            /\ \A u \in Elems(files[p].doc.followers) \cup Elems(files[p].doc.followees) :
                    ValidUsername(u)

\* C9: once save_snapshot(location, source, target, A, B) has returned,
\* load_snapshot(location) gives the elements of A, ascending, as followers,
\* those of B, ascending, as followees, and the saved source and target,
\* whatever was stored there before.
C9_RoundTrip ==
    pc = "saved" =>
        LET loaded == load_snapshot(files, snapshot_path(target, mode))
        IN  /\ loaded.present
            /\ Elems(loaded.snap.followers) = followers
            /\ Ascending(loaded.snap.followers)
            /\ Elems(loaded.snap.followees) = followees
            /\ Ascending(loaded.snap.followees)
            /\ loaded.snap.source = mode
            /\ loaded.snap.target = target

\* C9 witness: a save over a predecessor that held a name the new sets lack,
\* with two followers whose upstream order was not ascending
C9_Witness ==
    /\ pc = "saved"
    /\ snapshot_path(target, mode) \in DOMAIN before
    /\ Complete(before[snapshot_path(target, mode)])
    /\ \E u \in Elems(before[snapshot_path(target, mode)].doc.followees) : u \notin followees
    /\ Cardinality(followers) = 2

(***************************************************************************)
(* Property of the reconciliation, checked under SpecReconcile.            *)
(***************************************************************************)
\* C10: the no-followback list is exactly G - F and the fans list exactly
\* F - G, each ascending without duplicates; the two are disjoint and hold
\* no element of F \cap G; the counts are the sizes of F, G, G - F and F - G.
C10_Reconcile ==
    summary.printed =>
        /\ Elems(summary.no_me_siguen) = followees \ followers
        /\ Elems(summary.te_siguen_y_no_seguidos) = followers \ followees
        /\ Ascending(summary.no_me_siguen)
        /\ Ascending(summary.te_siguen_y_no_seguidos)
        /\ Elems(summary.no_me_siguen) \cap Elems(summary.te_siguen_y_no_seguidos) = {}
        /\ \A u \in followers \cap followees :
                u \notin Elems(summary.no_me_siguen) \cup Elems(summary.te_siguen_y_no_seguidos)
        /\ summary.n_followers = Cardinality(followers)
        /\ summary.n_followees = Cardinality(followees)
        /\ summary.n_no_me_siguen = Cardinality(followees \ followers)
        /\ summary.n_te_siguen = Cardinality(followers \ followees)
        /\ summary.listed = summary.no_me_siguen

\* C10 witness: both differences and the intersection are non-empty
C10_Witness ==
    /\ summary.printed
    /\ followers \cap followees # {}
    /\ Len(summary.no_me_siguen) >= 1
    /\ Len(summary.te_siguen_y_no_seguidos) >= 2

(***************************************************************************)
(* The normaliser on its own: normalize_username applied to every text     *)
(* of up to MaxRawLen characters, bare or behind a profile-URL prefix.     *)
(***************************************************************************)
MaxRawLen == 3      \* characters of a text after its prefix

\* a lower-case and an upper-case letter, a digit, ".", "_", "@", "/", the
\* space, and a character no username may hold
RawChars == {"a", "B", "1", ".", "_", "@", "/", " ", "!"}

RawPrefixes ==
    { <<>>,
      <<"i","n","s","t","a","g","r","a","m",".","c","o","m","/">>,
      <<"h","t","t","p","s",":","/","/","I","n","s","t","a","g","r","a","m",".","C","O","M","/">> }

Raws ==
    {p \o b : p \in RawPrefixes,
              b \in UNION {[1..n -> RawChars] : n \in 0..MaxRawLen}}

InitNormalize ==
    /\ files = <<>> /\ lastApi = NeverFetched /\ before = <<>>
    /\ clock = 0
    /\ pc = "normalize"
    /\ mode = <<>> /\ target = <<>> /\ retries = 0 /\ base_wait = 0
    /\ label = FOLLOWERS /\ attempt = 1
    /\ followers = {} /\ followees = {}
    /\ log = EmptyLog /\ yielded = <<>>
    /\ error = <<>> /\ status = -1 /\ ended = "none"
    /\ summary = NoSummary
    /\ fallback = FALSE
    /\ raw \in Raws /\ text = <<>>
    /\ node = JOther /\ usernames = {}

\* text = normalize_username(raw)
Normalize ==
    /\ pc = "normalize"
    /\ text' = normalize_username(raw)
    /\ pc' = "normalized"
    /\ UNCHANGED <<raw, node, usernames, store, run, args, label, attempt,
                   followers, followees, log, yielded, result>>

SpecNormalize == InitNormalize /\ [][Normalize]_vars

(***************************************************************************)
(* Properties of the normaliser, checked under SpecNormalize.              *)
(***************************************************************************)
\* C11: what normalize_username returns is a fixed point: normalising an
\* accepted result again gives the same result, so does normalising it behind
\* an "@", and normalising the absent value gives the absent value.
C11_FixedPoint ==
    pc = "normalized" =>
        /\ text # <<>> =>
                /\ normalize_username(text) = text
                /\ normalize_username(<<"@">> \o text) = text
        /\ text = <<>> => normalize_username(text) = <<>>

\* C11 witness: an accepted result that differs from its input, taken out of
\* a profile URL and folded to lower case
C11_Witness ==
    /\ pc = "normalized"
    /\ Len(raw) > Len(UrlPrefix)
    /\ text = <<"b", ".", "a">>

\* the steps of the specification: strip one trailing "/"
StripOneSlash(s) ==
    IF Len(s) >= 1 /\ s[Len(s)] = "/" THEN SubSeq(s, 1, Len(s) - 1) ELSE s

\* the steps of the specification, in order: trim; strip the leading "@";
\* strip one trailing "/"; take the username out of a profile URL; fold to
\* lower case; accept only [a-z0-9._]+
ReferenceNormalize(s) ==
    LET stepped == StripOneSlash(DropLead(Strip(s), {"@"}))
        m == UrlSearch(stepped)
        lowered == ToLower(IF m.found THEN m.group ELSE stepped)
    IN  IF ValidUsername(lowered) THEN lowered ELSE <<>>

\* C16: for every text over the alphabet, normalize_username returns what
\* the steps of the specification give.
C16_MatchesReference ==
    pc = "normalized" => text = ReferenceNormalize(raw)

(***************************************************************************)
(* Web run: run_web serves WEB_HTML, and the script of that page parses    *)
(* the two pasted lists and renders the summary in the browser.            *)
(***************************************************************************)
WEB == <<"w","e","b">>

\* the separators of split(/[\n,;\t ]+/) within the alphabet
SepChars == {" ", ","}

\* text.split(...).map(t => t.trim()).filter(Boolean): the maximal runs of
\* characters that are no separators
Tokens(s) ==
    {Strip(SubSeq(s, i, j)) :
        <<i, j>> \in {<<a, b>> \in (1..Len(s)) \X (1..Len(s)) :
            /\ a <= b
            /\ \A k \in a..b : s[k] \notin SepChars
            /\ (a = 1 \/ s[a - 1] \in SepChars)
            /\ (b = Len(s) \/ s[b + 1] \in SepChars)}}

\* t.replace(/\/$/, ''): one "/" at the end is removed
ReplaceLastSlash(t) ==
    IF Len(t) >= 1 /\ t[Len(t)] = "/" THEN SubSeq(t, 1, Len(t) - 1) ELSE t

\* the maps and the filter of parseUsers on one token; <<>> when filtered out
ParseToken(t) ==
    LET bare == ReplaceLastSlash(DropLead(t, {"@"}))
        m == UrlSearch(bare)
        lowered == ToLower(IF m.found THEN m.group ELSE bare)
    IN  IF Len(lowered) >= 1
           /\ \A i \in 1..Len(lowered) :
                IsLower(lowered[i]) \/ IsDigit(lowered[i]) \/ lowered[i] \in {".", "_"}
        THEN lowered ELSE <<>>

\* parseUsers(text): the distinct tokens that pass the filter
parseUsers(s) == {ParseToken(t) : t \in Tokens(s)} \ {<<>>}

\* what the click handler of "Calcular" renders
onclick(fset, gset) ==
    LET noFollowback == Sorted(gset \ fset)
        fans == Sorted(fset \ gset)
    IN  [printed |-> TRUE,
         n_followers |-> Cardinality(fset),
         n_followees |-> Cardinality(gset),
         no_me_siguen |-> noFollowback,
         te_siguen_y_no_seguidos |-> fans,
         n_no_me_siguen |-> Len(noFollowback),
         n_te_siguen |-> Len(fans),
         listed |-> noFollowback]

\* texts pasted into the two text areas
PastedTexts ==
    { <<>>,
      <<"@","B","o","b",","," ","a","l","/">>,
      <<"a","l"," ","i","n","s","t","a","g","r","a","m",".","c","o","m","/","z","o","e">> }

\* run_web up to serve_forever()
StartWeb ==
    /\ pc = "idle"
    /\ clock < MaxRuns
    /\ Fresh
    /\ mode' = WEB
    /\ target' = <<>>
    /\ followers' = {} /\ followees' = {}
    /\ pc' = "serving" /\ status' = -1 /\ ended' = "none"
    /\ UNCHANGED <<pure, store, retries, base_wait>>

\* the page is open and "Calcular" is clicked on two pasted texts
Calcular(ftext, gtext) ==
    /\ pc = "serving"
    /\ followers' = parseUsers(ftext)
    /\ followees' = parseUsers(gtext)
    /\ summary' = onclick(parseUsers(ftext), parseUsers(gtext))
    /\ UNCHANGED <<pure, store, run, args, pc, label, attempt, log, yielded,
                   error, status, ended, fallback>>

\* Ctrl+C: serve_forever() is left and run_web returns 0
Interrupt ==
    /\ pc = "serving"
    /\ pc' = "idle"
    /\ status' = 0
    /\ ended' = "returned"
    /\ UNCHANGED <<pure, store, run, args, label, attempt, followers, followees,
                   log, yielded, error, summary, fallback>>

\* The runs that need no network: offline and web, one after another.
NextLocal ==
    \/ \E t \in Targets, ff \in ExportFiles, gf \in ExportFiles : StartOffline(t, ff, gf)
    \/ SaveOpen
    \/ SaveWrite
    \/ Summarize
    \/ StartWeb
    \/ \E ftext \in PastedTexts, gtext \in PastedTexts : Calcular(ftext, gtext)
    \/ Interrupt

SpecLocal == Init /\ [][NextLocal]_vars

(***************************************************************************)
(* Property of the offline and web runs, checked under SpecLocal.          *)
(***************************************************************************)
\* the source tag the specification gives the snapshots of pasted lists
PASTED == <<"p","a","s","t","e","d">>

\* a complete snapshot tagged src that holds exactly the sets F and G
SnapshotOf(src, F, G) ==
    \E p \in DOMAIN files :
        /\ Complete(files[p])
        /\ files[p].doc.source = src
        /\ Elems(files[p].doc.followers) = F
        /\ Elems(files[p].doc.followees) = G

\* C12: whenever an offline run or a run on pasted lists has produced a
\* reconciliation, a snapshot tagged with the source of that strategy
\* ("offline", "pasted") and holding the reconciled sets is stored.
C12_SavedBeforeReconciled ==
    /\ (mode = OFFLINE /\ summary.printed) => SnapshotOf(OFFLINE, followers, followees)
    /\ (mode = WEB /\ summary.printed) => SnapshotOf(PASTED, followers, followees)

(***************************************************************************)
(* Further properties of the acquisition runs, checked under Spec.         *)
(***************************************************************************)
\* the fetch of relation l returned: its last call of the action succeeded
Fetched(l) == log[l] # <<>> /\ OkCall(log[l][Len(log[l])])

\* the run is over and it was no acquisition that succeeded
EndedWithoutAcquisition ==
    /\ pc = "idle"
    /\ ended \in {"returned", "raised"}
    /\ (status # 0 \/ fallback)

\* C13: the snapshot directory changes only in the save of a run that has
\* acquired both relations, only at that run's location, and what is
\* written there is the document of both acquired sets; a run that is still
\* fetching, or that ended on a failed fetch, on a missing input file, on a
\* missing dependency or on the fallback, leaves the directory as it found
\* it.
C13_OnlySuccessWrites ==
    /\ [](pc \in {"fetch", "sleep"} \/ EndedWithoutAcquisition => files = before)
    /\ [][files' # files =>
            /\ pc \in {"save", "write"}
            /\ mode = API => Fetched(FOLLOWERS) /\ Fetched(FOLLOWEES)
            /\ \A p \in DOMAIN files :
                p # snapshot_path(target, mode) => p \in DOMAIN files' /\ files'[p] = files[p]
            /\ DOMAIN files' = DOMAIN files \cup {snapshot_path(target, mode)}
            /\ files'[snapshot_path(target, mode)].doc
                    = Payload(clock, mode, target, followers, followees)]_vars

\* C13 witness: the followers were fetched, the followees fetch failed, and
\* the stored snapshots are those the run found
C13_Witness ==
    /\ pc = "idle" /\ mode = API /\ status = 1
    /\ Fetched(FOLLOWERS)
    /\ followers # {}
    /\ log[FOLLOWEES] # <<>>
    /\ files # <<>>
    /\ files = before

\* C14: an API run that ends on a rate-limited error while the document at
\* its target's "api" location does not decode ends with the decode error
\* raised to the caller of run_api: it returns no status (neither 2 nor 0),
\* announces no fallback and prints no reconciliation, and the document
\* stays as it was.
C14_CorruptNotMasked ==
    (ApiRateLimited /\ ApiPath \in DOMAIN before /\ ~Complete(before[ApiPath])) =>
        /\ load_snapshot(before, ApiPath).raises
        /\ ended = "raised"
        /\ status = -1
        /\ ~fallback
        /\ ~summary.printed
        /\ files = before

\* C14 witness: retries exhausted on the followees, rate-limited each time,
\* over a document that an earlier run was killed while writing
C14_Witness ==
    /\ ApiRateLimited
    /\ ended = "raised"
    /\ ApiPath \in DOMAIN files /\ ~Complete(files[ApiPath])
    /\ retries = 2
    /\ Len(Calls(FOLLOWEES)) = 2

\* the source tags save_snapshot is called with
Sources == {API, OFFLINE}

\* the snapshot of the key (t, src) is stored in fs
IsSnapshotOf(fs, t, src) ==
    /\ snapshot_path(t, src) \in DOMAIN fs
    /\ Complete(fs[snapshot_path(t, src)])
    /\ fs[snapshot_path(t, src)].doc.target = t
    /\ fs[snapshot_path(t, src)].doc.source = src

\* C15: no step of a run on the key (target, source) touches the stored
\* snapshot of any other key (target', source'): it is still stored after
\* the step, and it is the same document.
C15_OneDocumentPerKey ==
    [][\A t2 \in Targets, s2 \in Sources :
            (<<t2, s2>> # <<target, mode>> /\ IsSnapshotOf(files, t2, s2)) =>
                /\ IsSnapshotOf(files', t2, s2)
                /\ files'[snapshot_path(t2, s2)] = files[snapshot_path(t2, s2)]]_vars

\* C18: an API run with retries <= 0 never calls the upstream action and
\* never sleeps; its first fetch raises the generic failure, whose message
\* holds no rate-limit hint, so the run returns 1 without fallback and
\* without reconciliation, whatever "api" snapshot is stored.
C18_NoRetriesNoFetch ==
    (mode = API /\ retries <= 0) =>
        /\ log = EmptyLog
        /\ (pc = "idle" /\ ended = "returned" /\ status # 3) =>
                /\ error = GaveUpMsg(FOLLOWERS, retries)
                /\ ~is_rate_limited(error)
                /\ status = 1
                /\ ~fallback
                /\ ~summary.printed
                /\ followers = {} /\ followees = {}
                /\ files = before

\* C18 witness: such a run with a negative number of retries, while an "api"
\* snapshot of its target is stored
C18_Witness ==
    /\ mode = API /\ retries < 0
    /\ pc = "idle" /\ ended = "returned"
    /\ status = 1
    /\ HasApiSnapshot(files, target)

(***************************************************************************)
(* Further properties of the backoff fetcher, checked under SpecFetch.     *)
(***************************************************************************)
\* what C19 says of the order of the two fetches and of their counters
Sequential ==
    /\ log[FOLLOWEES] # <<>> => Fetched(FOLLOWERS)
    /\ label = FOLLOWEES /\ pc \in {"fetch", "sleep"} => Fetched(FOLLOWERS)
    /\ pc = "fetch" => attempt = Len(Calls(label)) + 1
    /\ pc = "sleep" => attempt = Len(Calls(label))
    /\ \A l \in Relations : \A i \in 1..Len(Sleeps(l)) :
            Sleeps(l)[i].secs = base_wait * i

\* C19 as stated: the followees are fetched only after the followers fetch
\* returned, each fetch counts its attempts and its waits from 1 whatever the
\* other one spent, and the action is invoked at most 2*retries times in the
\* run.
C19_AtMostTwiceRetries ==
    mode = API =>
        /\ Sequential
        /\ Len(Calls(FOLLOWERS)) + Len(Calls(FOLLOWEES)) <= 2 * retries

\* C19 amended: the same, with the bound on the invocations stated for
\* retries >= 0 and no invocation at all for retries < 0.
C19_Sequential ==
    mode = API =>
        /\ Sequential
        /\ retries >= 0 => Len(Calls(FOLLOWERS)) + Len(Calls(FOLLOWEES)) <= 2 * retries
        /\ retries < 0 => log = EmptyLog

\* C19 witness: both fetches spend their whole budget of three attempts, and
\* the first wait of the followees fetch is base_wait again
C19_Witness ==
    /\ mode = API /\ retries = 3 /\ base_wait = 2
    /\ Len(Calls(FOLLOWERS)) = 3
    /\ Len(Calls(FOLLOWEES)) = 3
    /\ Sleeps(FOLLOWERS)[2].secs = 4
    /\ Sleeps(FOLLOWEES)[1].secs = 2

(***************************************************************************)
(* Termination of the backoff fetcher.  The fetcher is sequential code: a  *)
(* call of the action that completes takes one of its outcomes, a sleep    *)
(* that completes lets the loop go on, and the raise after the loop is the *)
(* next statement.                                                         *)
(***************************************************************************)
\* the call of the action completes, with whatever outcome
Attempt == FetchOk(Outcomes) \/ FetchRetry(Outcomes) \/ FetchRaise(Outcomes)

SpecFetchFair ==
    /\ InitFetch
    /\ [][NextFetch]_vars
    /\ WF_vars(Attempt)
    /\ WF_vars(Sleep)
    /\ WF_vars(FetchGiveUp)

\* the fetch of relation l is under way
Fetching(l) == pc \in {"fetch", "sleep"} /\ label = l

\* C20: every fetch that is under way comes to an end, by returning its
\* set (the run goes on to the next fetch or to the save) or by raising
\* (the run is over); and with base_wait > 0 the waits of one fetch are
\* base_wait*1 < base_wait*2 < ..., strictly increasing.
C20_Terminates ==
    /\ Fetching(FOLLOWERS) ~> (Fetching(FOLLOWEES) \/ pc = "idle")
    /\ Fetching(FOLLOWEES) ~> (pc = "save" \/ pc = "idle")
    /\ [](base_wait > 0 =>
            \A l \in Relations : \A i \in 1..Len(Sleeps(l)) :
                /\ Sleeps(l)[i].secs = base_wait * i
                /\ \A j \in 1..(i - 1) : Sleeps(l)[j].secs < Sleeps(l)[i].secs)

\* C20 witness: the followers fetch ended by raising after every attempt was
\* rate-limited and two waits, of base_wait and of 2*base_wait
C20_Witness ==
    /\ retries = 3 /\ base_wait = 1
    /\ pc = "idle" /\ label = FOLLOWERS
    /\ error \in RateLimitMsgs
    /\ [i \in 1..Len(Sleeps(FOLLOWERS)) |-> Sleeps(FOLLOWERS)[i].secs] = <<1, 2>>

(***************************************************************************)
(* The extractor on its own: extract_usernames applied to every JSON       *)
(* document of up to MaxNodes values.                                      *)
(***************************************************************************)
MaxNodes == 4       \* values (strings, numbers, lists, mappings) of a document

\* the values that hold no other value: strings that normalise to a
\* username, one that does not, and a number
Leaves ==
    { JStr(<<"@","B","o","b">>), JStr(<<"a","l","/">>), JStr(<<"n","o","!">>), JOther }

\* keys of the mappings
Keys == {"value", "href", "data"}

\* the key lists of a mapping of k entries: its keys are distinct
KeySeqs(k) == {ks \in [1..k -> Keys] : \A i, j \in 1..k : ks[i] = ks[j] => i = j}

\* the lists and the mappings that hold the values xs, in that order
Containers(xs) == {JList(xs)} \cup {JDict(ks, xs) : ks \in KeySeqs(Len(xs))}

\* the documents of exactly n values, and the lists of k documents of n
\* values in all
RECURSIVE TreesOf(_), Forests(_, _)
TreesOf(n) ==
    IF n = 1 THEN Leaves \cup Containers(<<>>)
    ELSE UNION {UNION {Containers(xs) : xs \in Forests(k, n - 1)} : k \in 1..(n - 1)}
Forests(k, n) ==
    IF k = 0 THEN (IF n = 0 THEN {<<>>} ELSE {})
    ELSE UNION {LET heads == TreesOf(m)
                    tails == Forests(k - 1, n - m)
                IN  {<<t>> \o f : t \in heads, f \in tails} :
                m \in 1..(n - k + 1)}

\* the argument is any document of at most MaxNodes values
InitExtract ==
    /\ files = <<>> /\ lastApi = NeverFetched /\ before = <<>>
    /\ clock = 0
    /\ pc = "extract"
    /\ mode = <<>> /\ target = <<>> /\ retries = 0 /\ base_wait = 0
    /\ label = FOLLOWERS /\ attempt = 1
    /\ followers = {} /\ followees = {}
    /\ log = EmptyLog /\ yielded = <<>>
    /\ error = <<>> /\ status = -1 /\ ended = "none"
    /\ summary = NoSummary
    /\ fallback = FALSE
    /\ raw = <<>> /\ text = <<>>
    /\ \E n \in 1..MaxNodes :
            IF n = 1 THEN node \in TreesOf(1)
            ELSE \E k \in 1..(n - 1) : \E xs \in Forests(k, n - 1) :
                    node \in Containers(xs)
    /\ usernames = {}

\* usernames = extract_usernames(node)
Extract ==
    /\ pc = "extract"
    /\ usernames' = extract_usernames(node)
    /\ pc' = "extracted"
    /\ UNCHANGED <<raw, text, node, store, run, args, label, attempt,
                   followers, followees, log, yielded, result>>

SpecExtract == InitExtract /\ [][Extract]_vars

(***************************************************************************)
(* Property of the extractor, checked under SpecExtract.                   *)
(***************************************************************************)
\* every value of the document n, n included
RECURSIVE ValuesOf(_)
ValuesOf(n) == {n} \cup UNION {ValuesOf(n.items[i]) : i \in 1..Len(n.items)}

\* the strings held under a "value" or "href" key of a mapping of n
StringsUnderKeys(n) ==
    UNION {{d.items[i].str :
                i \in {j \in 1..Len(d.keys) :
                        d.keys[j] \in {"value", "href"} /\ d.items[j].kind = "str"}} :
            d \in {v \in ValuesOf(n) : v.kind = "dict"}}

\* the orders of k things
Perms(k) == {p \in [1..k -> 1..k] : \A i, j \in 1..k : p[i] = p[j] => i = j}

\* the documents n becomes when the elements of its lists and the entries
\* of its mappings, at every depth, are put in another order
RECURSIVE Permuted(_)
Permuted(n) ==
    IF n.kind \notin {"list", "dict"} THEN {n}
    ELSE LET k == Len(n.items)
             kids == {c \in [1..k -> UNION {Permuted(n.items[i]) : i \in 1..k}] :
                        \A i \in 1..k : c[i] \in Permuted(n.items[i])}
         IN  {[n EXCEPT !.items = [i \in 1..k |-> c[p[i]]],
                        !.keys = IF n.kind = "dict" THEN [i \in 1..k |-> n.keys[p[i]]]
                                 ELSE <<>>] :
                c \in kids, p \in Perms(k)}

\* C17: extract_usernames(node) is exactly the set of the accepted
\* normalisations of the strings held under a "value" or "href" key of a
\* mapping at any depth of node, and it is the same set for node with its
\* lists and mappings in any other order.
C17_OrderIndependentComplete ==
    pc = "extracted" =>
        /\ usernames = {normalize_username(str) : str \in StringsUnderKeys(node)} \ {<<>>}
        /\ \A n2 \in Permuted(node) : extract_usernames(n2) = usernames

\* C17 witness: two usernames, one of them under a mapping nested in a
\* mapping whose two entries can be swapped
C17_Witness ==
    /\ pc = "extracted"
    /\ node.kind = "dict"
    /\ Len(node.items) = 2
    /\ node.items[1].kind = "dict"
    /\ node.items[2].kind = "str"
    /\ Cardinality(usernames) = 2
    /\ Cardinality(Permuted(node)) = 2

====
